---- MODULE Spec2Model ----
(***************************************************************************)
(* The DEM acquisition-and-normalisation part of                           *)
(* sentinel_1_isce3_rtc.ipynb: scene-bounds adjustment at extreme          *)
(* latitudes, Copernicus tile location, the download loop, gdal_merge,     *)
(* the coverage cell (contains_properly / expand_raster_with_bounds), the   *)
(* geoid cell (remove_geoid) and the cells that hand the DEM to            *)
(* rtc_s1_single_job.py.                                                   *)
(*                                                                         *)
(* Coordinates are integers in units of a quarter of a degree (Deg(1) = 4  *)
(* units), so that bounds that are not whole degrees and offsets that are  *)
(* not whole pixels exist.  A bounding box is the tuple the code uses,     *)
(* (x_min, y_min, x_max, y_max); Python's index i is index i+1 here.       *)
(* Arithmetic is exact: the floating-point rounding of the code's          *)
(* divisions is not modelled.                                              *)
(***************************************************************************)
EXTENDS Integers, Sequences, FiniteSets, Bags, TLC

VARIABLES
    scene_in,       \* Polygon(geometry['coordinates'][0]).bounds, as first computed
    scene_bounds,   \* the notebook's scene_bounds
    adjusts,        \* the reference CRSs whose adjustment ran, in order (3031, 3995)
    lats,           \* the notebook's lats (a list of consecutive integers, as a set)
    longs,          \* the notebook's longs
    dem_s3_paths,   \* the de-duplicated tile paths
    remote,         \* the tile paths the bucket serves
    dem_folder,     \* the tile files present in dem_download_folder
    dems_to_merge,  \* the notebook's dems_to_merge
    todo,           \* the part of dem_s3_paths the download loop has not reached
    not_found,      \* the paths printed as 'not found' by the current loop
    existed,        \* the paths printed as 'file exists' by the current loop
    downloads,      \* bag: how often bucket.download_file fetched each path
    run,            \* how many times the download cell was started
    tile_val,       \* elevation held by each tile of the bucket (flat tiles)
    res,            \* <<res[0], res[1]>>: the tiles' pixel size, in units
    merged_dem,     \* the raster at merged_dem_path
    cover_runs,     \* how many times the coverage cell ran
    geoid,          \* the geoid model's undulation field
    ellipsoid_dem,  \* the raster at ellisoid_merged_dem_path
    dem_path,       \* the notebook's dem_path: which of the two files it names
    rtc_dem,        \* the raster rtc_s1_single_job.py read as its dem_file
    pc              \* the notebook cell that runs next

sceneVars == <<scene_in, scene_bounds, adjusts>>
tileVars == <<lats, longs, dem_s3_paths>>
storeVars == <<remote, dem_folder, downloads, run, tile_val, res>>
loopVars == <<dems_to_merge, todo, not_found, existed>>
demVars == <<merged_dem, cover_runs, geoid, ellipsoid_dem>>
rtcVars == <<dem_path, rtc_dem>>
vars == <<sceneVars, tileVars, storeVars, loopVars, demVars, rtcVars, pc>>

(***************************************************************************)
(* Bounds of the model.                                                    *)
(***************************************************************************)
\* the coverage cell is run at most this many times on one mosaic
MaxCoverRuns == 2
\* at most this many of the requested tiles exist when the mosaic is built
MaxTiles == 2
\* the scene boxes of the mosaic specification lie in 0..BoxSpan on both axes
BoxSpan == 2
\* the small scene boxes of the location specification lie in -LocSpan..LocSpan
LocSpan == 5
\* the download cell is started at most this many times on one DEM folder
MaxRuns == 2

(***************************************************************************)
(* Arithmetic helpers.                                                     *)
(***************************************************************************)
Abs(n) == IF n < 0 THEN -n ELSE n
Max2(a, b) == IF a >= b THEN a ELSE b
SetMin(S) == CHOOSE m \in S : \A n \in S : m <= n
SetMax(S) == CHOOSE m \in S : \A n \in S : m >= n
\* d degrees in units
Deg(d) == 4 * d
\* np.floor and np.ceil of a coordinate given in units, in whole degrees
Floor(u) == u \div 4
Ceil(u) == -((-u) \div 4)

x_min(b) == b[1]
y_min(b) == b[2]
x_max(b) == b[3]
y_max(b) == b[4]

(***************************************************************************)
(* Tile naming (the f-string of the dem_s3_paths cell).  A path is the     *)
(* record of the four fields the format string fills in; the zero padding  *)
(* of :02d / :03d does not change which number is written.                 *)
(***************************************************************************)
\* a naming that leaves the hemisphere letters out of account
TilePath_one_hemisphere(lat, long) ==
    [lat_dir  |-> "N", lat_abs  |-> Abs(lat),
     long_dir |-> "E", long_abs |-> Abs(long)]

TilePath(lat, long) ==
    [lat_dir  |-> IF lat >= 0 THEN "N" ELSE "S", lat_abs  |-> Abs(lat),
     long_dir |-> IF long >= 0 THEN "E" ELSE "W", long_abs |-> Abs(long)]

\* the grid cell a Copernicus tile of that name covers (its south-west corner)
TileLat(p) == IF p.lat_dir = "N" THEN p.lat_abs ELSE -p.lat_abs
TileLong(p) == IF p.long_dir = "E" THEN p.long_abs ELSE -p.long_abs

(***************************************************************************)
(* Rasters.  A raster is its bounds, its pixel size and its band: data     *)
(* maps the pixel <<column, row>> to its value, columns and rows counted   *)
(* on the common grid (column c spans c*resx .. (c+1)*resx; rows count     *)
(* northwards).  All rasters of a run are aligned with that grid.          *)
(***************************************************************************)
Pixels(l, b, r, t, rx, ry) ==
    {<<c, w>> : c \in (l \div rx)..((r \div rx) - 1), w \in (b \div ry)..((t \div ry) - 1)}

NoRaster ==
    [left |-> 0, bottom |-> 0, right |-> 0, top |-> 0, resx |-> 1, resy |-> 1,
     data |-> [p \in {} |-> 0]]

Exists(rst) == rst.right > rst.left

\* rasterio.transform.array_bounds(height, width, transform): (west, south, east, north)
array_bounds(rst) == <<rst.left, rst.bottom, rst.right, rst.top>>

\* the file the bucket holds for a path: one grid cell of constant elevation
TileRaster(p, rs, v) ==
    LET l == Deg(TileLong(p))
        b == Deg(TileLat(p))
    IN  [left |-> l, bottom |-> b, right |-> l + Deg(1), top |-> b + Deg(1),
         resx |-> rs[1], resy |-> rs[2],
         data |-> [q \in Pixels(l, b, l + Deg(1), b + Deg(1), rs[1], rs[2]) |-> v]]

(***************************************************************************)
(* Tile location: the lats / longs cell and the dem_s3_paths cell.         *)
(***************************************************************************)
\* a range that includes its stop
BandRange_inclusive(lo, hi) == Floor(lo)..Ceil(hi + Deg(1))

\* a range that stops at the ceiling of hi itself
BandRange_no_extra(lo, hi) == Floor(lo)..(Ceil(hi) - 1)

\* list(range(int(np.floor(lo)), int(np.ceil(hi + 1)))): range excludes its stop
BandRange(lo, hi) == Floor(lo)..(Ceil(hi + Deg(1)) - 1)

\* the loop over lats and longs, then list(set(...))
TilePaths(la, lo) == {TilePath(lat, long) : lat \in la, long \in lo}

(***************************************************************************)
(* Coordinate transforms (transform_polygon).  EPSG:3031 and EPSG:3995 are *)
(* polar stereographic projections about the south and the north pole with *)
(* central meridian 0: a point at longitude lon and angular distance c     *)
(* from the projection's pole maps to (rho(c) sin lon, +-rho(c) cos lon),  *)
(* rho growing with c.  The model tabulates sin at every unit (a quarter   *)
(* of a degree) scaled by 10000 and rho(c) = 2000 tan(c/2) for c up to 175 *)
(* degrees; projected coordinates are rounded to whole numbers.  The       *)
(* inverse transform is rounded outwards to whole units: a lower bound     *)
(* down, an upper bound up.                                                *)
(***************************************************************************)
SinTable ==
  <<
    0, 44, 87, 131, 175, 218, 262, 305, 349, 393, 436, 480,
    523, 567, 610, 654, 698, 741, 785, 828, 872, 915, 958, 1002,
    1045, 1089, 1132, 1175, 1219, 1262, 1305, 1349, 1392, 1435, 1478, 1521,
    1564, 1607, 1650, 1693, 1736, 1779, 1822, 1865, 1908, 1951, 1994, 2036,
    2079, 2122, 2164, 2207, 2250, 2292, 2334, 2377, 2419, 2462, 2504, 2546,
    2588, 2630, 2672, 2714, 2756, 2798, 2840, 2882, 2924, 2965, 3007, 3049,
    3090, 3132, 3173, 3214, 3256, 3297, 3338, 3379, 3420, 3461, 3502, 3543,
    3584, 3624, 3665, 3706, 3746, 3786, 3827, 3867, 3907, 3947, 3987, 4027,
    4067, 4107, 4147, 4187, 4226, 4266, 4305, 4344, 4384, 4423, 4462, 4501,
    4540, 4579, 4617, 4656, 4695, 4733, 4772, 4810, 4848, 4886, 4924, 4962,
    5000, 5038, 5075, 5113, 5150, 5188, 5225, 5262, 5299, 5336, 5373, 5410,
    5446, 5483, 5519, 5556, 5592, 5628, 5664, 5700, 5736, 5771, 5807, 5842,
    5878, 5913, 5948, 5983, 6018, 6053, 6088, 6122, 6157, 6191, 6225, 6259,
    6293, 6327, 6361, 6394, 6428, 6461, 6494, 6528, 6561, 6593, 6626, 6659,
    6691, 6724, 6756, 6788, 6820, 6852, 6884, 6915, 6947, 6978, 7009, 7040,
    7071, 7102, 7133, 7163, 7193, 7224, 7254, 7284, 7314, 7343, 7373, 7402,
    7431, 7461, 7490, 7518, 7547, 7576, 7604, 7632, 7660, 7688, 7716, 7744,
    7771, 7799, 7826, 7853, 7880, 7907, 7934, 7960, 7986, 8013, 8039, 8064,
    8090, 8116, 8141, 8166, 8192, 8216, 8241, 8266, 8290, 8315, 8339, 8363,
    8387, 8410, 8434, 8457, 8480, 8504, 8526, 8549, 8572, 8594, 8616, 8638,
    8660, 8682, 8704, 8725, 8746, 8767, 8788, 8809, 8829, 8850, 8870, 8890,
    8910, 8930, 8949, 8969, 8988, 9007, 9026, 9045, 9063, 9081, 9100, 9118,
    9135, 9153, 9171, 9188, 9205, 9222, 9239, 9255, 9272, 9288, 9304, 9320,
    9336, 9351, 9367, 9382, 9397, 9412, 9426, 9441, 9455, 9469, 9483, 9497,
    9511, 9524, 9537, 9550, 9563, 9576, 9588, 9600, 9613, 9625, 9636, 9648,
    9659, 9670, 9681, 9692, 9703, 9713, 9724, 9734, 9744, 9753, 9763, 9772,
    9781, 9790, 9799, 9808, 9816, 9825, 9833, 9840, 9848, 9856, 9863, 9870,
    9877, 9884, 9890, 9897, 9903, 9909, 9914, 9920, 9925, 9931, 9936, 9941,
    9945, 9950, 9954, 9958, 9962, 9966, 9969, 9973, 9976, 9979, 9981, 9984,
    9986, 9988, 9990, 9992, 9994, 9995, 9997, 9998, 9998, 9999, 10000, 10000,
    10000
  >>

RhoTable ==
  <<
    0, 4, 9, 13, 17, 22, 26, 31, 35, 39, 44, 48,
    52, 57, 61, 65, 70, 74, 79, 83, 87, 92, 96, 100,
    105, 109, 114, 118, 122, 127, 131, 135, 140, 144, 149, 153,
    157, 162, 166, 171, 175, 179, 184, 188, 193, 197, 201, 206,
    210, 215, 219, 223, 228, 232, 237, 241, 246, 250, 254, 259,
    263, 268, 272, 277, 281, 286, 290, 294, 299, 303, 308, 312,
    317, 321, 326, 330, 335, 339, 344, 348, 353, 357, 362, 366,
    371, 375, 380, 384, 389, 393, 398, 402, 407, 411, 416, 421,
    425, 430, 434, 439, 443, 448, 453, 457, 462, 466, 471, 476,
    480, 485, 489, 494, 499, 503, 508, 513, 517, 522, 527, 531,
    536, 541, 545, 550, 555, 559, 564, 569, 573, 578, 583, 588,
    592, 597, 602, 607, 611, 616, 621, 626, 631, 635, 640, 645,
    650, 655, 660, 664, 669, 674, 679, 684, 689, 694, 698, 703,
    708, 713, 718, 723, 728, 733, 738, 743, 748, 753, 758, 763,
    768, 773, 778, 783, 788, 793, 798, 803, 808, 813, 818, 823,
    828, 834, 839, 844, 849, 854, 859, 864, 870, 875, 880, 885,
    890, 896, 901, 906, 911, 917, 922, 927, 933, 938, 943, 949,
    954, 959, 965, 970, 975, 981, 986, 992, 997, 1003, 1008, 1014,
    1019, 1025, 1030, 1036, 1041, 1047, 1052, 1058, 1063, 1069, 1075, 1080,
    1086, 1092, 1097, 1103, 1109, 1114, 1120, 1126, 1132, 1137, 1143, 1149,
    1155, 1161, 1166, 1172, 1178, 1184, 1190, 1196, 1202, 1208, 1214, 1220,
    1226, 1232, 1238, 1244, 1250, 1256, 1262, 1268, 1274, 1280, 1286, 1293,
    1299, 1305, 1311, 1318, 1324, 1330, 1336, 1343, 1349, 1355, 1362, 1368,
    1375, 1381, 1387, 1394, 1400, 1407, 1413, 1420, 1427, 1433, 1440, 1446,
    1453, 1460, 1466, 1473, 1480, 1487, 1493, 1500, 1507, 1514, 1521, 1528,
    1535, 1542, 1549, 1556, 1563, 1570, 1577, 1584, 1591, 1598, 1605, 1612,
    1620, 1627, 1634, 1641, 1649, 1656, 1663, 1671, 1678, 1686, 1693, 1701,
    1708, 1716, 1723, 1731, 1739, 1746, 1754, 1762, 1769, 1777, 1785, 1793,
    1801, 1809, 1817, 1825, 1833, 1841, 1849, 1857, 1865, 1873, 1881, 1890,
    1898, 1906, 1915, 1923, 1931, 1940, 1948, 1957, 1965, 1974, 1983, 1991,
    2000, 2009, 2018, 2026, 2035, 2044, 2053, 2062, 2071, 2080, 2089, 2098,
    2108, 2117, 2126, 2135, 2145, 2154, 2164, 2173, 2183, 2192, 2202, 2212,
    2221, 2231, 2241, 2251, 2261, 2271, 2281, 2291, 2301, 2311, 2321, 2331,
    2342, 2352, 2362, 2373, 2384, 2394, 2405, 2415, 2426, 2437, 2448, 2459,
    2470, 2481, 2492, 2503, 2514, 2526, 2537, 2548, 2560, 2571, 2583, 2595,
    2606, 2618, 2630, 2642, 2654, 2666, 2678, 2691, 2703, 2715, 2728, 2740,
    2753, 2765, 2778, 2791, 2804, 2817, 2830, 2843, 2856, 2870, 2883, 2896,
    2910, 2924, 2937, 2951, 2965, 2979, 2993, 3007, 3022, 3036, 3051, 3065,
    3080, 3094, 3109, 3124, 3139, 3155, 3170, 3185, 3201, 3216, 3232, 3248,
    3264, 3280, 3296, 3312, 3329, 3345, 3362, 3378, 3395, 3412, 3429, 3447,
    3464, 3482, 3499, 3517, 3535, 3553, 3571, 3590, 3608, 3627, 3646, 3664,
    3684, 3703, 3722, 3742, 3761, 3781, 3801, 3822, 3842, 3863, 3883, 3904,
    3925, 3946, 3968, 3990, 4011, 4033, 4056, 4078, 4101, 4123, 4146, 4170,
    4193, 4217, 4241, 4265, 4289, 4314, 4338, 4363, 4389, 4414, 4440, 4466,
    4492, 4519, 4545, 4572, 4600, 4627, 4655, 4683, 4712, 4740, 4769, 4799,
    4828, 4858, 4889, 4919, 4950, 4981, 5013, 5045, 5077, 5110, 5143, 5176,
    5210, 5244, 5279, 5314, 5349, 5385, 5421, 5458, 5495, 5532, 5570, 5609,
    5648, 5687, 5727, 5768, 5808, 5850, 5892, 5934, 5977, 6021, 6065, 6110,
    6155, 6201, 6248, 6295, 6343, 6392, 6441, 6491, 6542, 6593, 6645, 6698,
    6752, 6806, 6862, 6918, 6975, 7033, 7091, 7151, 7212, 7273, 7336, 7399,
    7464, 7530, 7597, 7664, 7733, 7804, 7875, 7948, 8022, 8097, 8173, 8251,
    8331, 8411, 8494, 8578, 8663, 8750, 8839, 8929, 9021, 9115, 9211, 9309,
    9409, 9511, 9615, 9722, 9830, 9941, 10055, 10171, 10289, 10410, 10534, 10661,
    10791, 10924, 11060, 11200, 11343, 11489, 11639, 11793, 11952, 12114, 12280, 12452,
    12628, 12808, 12994, 13185, 13382, 13585, 13794, 14009, 14231, 14460, 14696, 14940,
    15192, 15452, 15721, 16000, 16289, 16588, 16898, 17220, 17554, 17901, 18262, 18638,
    19029, 19437, 19862, 20306, 20771, 21257, 21766, 22300, 22860, 23449, 24069, 24723,
    25412, 26141, 26913, 27732, 28601, 29527, 30514, 31569, 32700, 33914, 35221, 36633,
    38162, 39824, 41638, 43623, 45808
  >>

Sin(u) ==
    LET a == u % 1440
    IN  IF a <= 360 THEN SinTable[a + 1]
        ELSE IF a <= 720 THEN SinTable[(720 - a) + 1]
        ELSE IF a <= 1080 THEN -SinTable[(a - 720) + 1]
        ELSE -SinTable[(1440 - a) + 1]
Cos(u) == Sin(u + 360)
Rho(c) == RhoTable[c + 1]
Round(n) == (n + 5000) \div 10000

\* the angular distance of latitude lat from the pole of the reference CRS
PoleDistance(ref_crs, lat) == IF ref_crs = 3031 THEN lat + Deg(90) ELSE Deg(90) - lat

\* pyproj's transform of one point from EPSG:4326 to the polar CRS
ToPolar(ref_crs, pt) ==
    LET r == Rho(PoleDistance(ref_crs, pt[2]))
        n == Round(r * Cos(pt[1]))
    IN  <<Round(r * Sin(pt[1])), IF ref_crs = 3031 THEN n ELSE -n>>

\* longitude of a projected point: atan2 of its easting and its northing
\* (towards meridian 0), rounded down and up to whole units
LonFloor(e, n) ==
    IF e = 0 THEN (IF n >= 0 THEN 0 ELSE Deg(180))
    ELSE IF e > 0 THEN SetMax({u \in 0..(Deg(180) - 1) : e * Cos(u) - n * Sin(u) >= 0})
    ELSE SetMax({u \in (-Deg(180))..(-1) : e * Cos(u) - n * Sin(u) >= 0})
LonCeil(e, n) ==
    IF e = 0 THEN (IF n >= 0 THEN 0 ELSE Deg(180))
    ELSE IF e > 0 THEN SetMin({u \in 1..Deg(180) : e * Cos(u) - n * Sin(u) <= 0})
    ELSE SetMin({u \in (1 - Deg(180))..0 : e * Cos(u) - n * Sin(u) <= 0})

\* distance from the pole of a projected point, rounded down and up
DistFloor(e, n) == SetMax({c \in 0..(Len(RhoTable) - 1) : Rho(c) * Rho(c) <= e * e + n * n})
DistCeil(e, n) == SetMin({c \in 0..(Len(RhoTable) - 1) : Rho(c) * Rho(c) >= e * e + n * n})

\* pyproj's transform of one point from the polar CRS back to EPSG:4326, as the
\* box [lon_lo, lon_hi] x [lat_lo, lat_hi] of whole units around the exact result
FromPolar(ref_crs, pt) ==
    LET n  == IF ref_crs = 3031 THEN pt[2] ELSE -pt[2]
        lo == DistFloor(pt[1], n)
        hi == DistCeil(pt[1], n)
    IN  [lon_lo |-> LonFloor(pt[1], n), lon_hi |-> LonCeil(pt[1], n),
         lat_lo |-> IF ref_crs = 3031 THEN lo - Deg(90) ELSE Deg(90) - hi,
         lat_hi |-> IF ref_crs = 3031 THEN hi - Deg(90) ELSE Deg(90) - lo]

\* the bounds of a set of points
PointBounds(P) ==
    <<SetMin({p[1] : p \in P}), SetMin({p[2] : p \in P}),
      SetMax({p[1] : p \in P}), SetMax({p[2] : p \in P})>>

(***************************************************************************)
(* adjust_scene_poly_at_extreme_lat.                                       *)
(***************************************************************************)
\* spacing of the points generated along the sides of the box; the code's 0.1
\* degree is finer than a unit, the model generates a point at every unit
delta == 1

\* list(np.arange(start, stop, step)) for step > 0 and for step < 0
ARange(start, stop, step) ==
    IF step > 0 THEN {v \in start..(stop - 1) : (v - start) % step = 0}
    ELSE {v \in (stop + 1)..start : (start - v) % (-step) = 0}

BoxSidePoints(bbox) ==
    LET top_side    == {<<x, y_max(bbox)>> :
                          x \in ARange(x_min(bbox), x_max(bbox), delta) \cup {x_max(bbox)}}
        right_side  == {<<x_max(bbox), y>> :
                          y \in ARange(y_max(bbox) - delta, y_min(bbox) - delta, -delta)
                                \cup {y_min(bbox)}}
        bottom_side == {<<x, y_min(bbox)>> :
                          x \in ARange(x_max(bbox) - delta, x_min(bbox) - delta, -delta)
                                \cup {x_min(bbox)}}
        left_side   == {<<x_min(bbox), y>> :
                          y \in ARange(y_min(bbox) + delta, y_max(bbox), delta) \cup {y_max(bbox)}}
    IN  top_side \cup right_side \cup bottom_side \cup left_side

\* transform_polygon(src_crs, ref_crs, polygon).bounds
trans_bounds(bbox, ref_crs) == PointBounds({ToPolar(ref_crs, p) : p \in BoxSidePoints(bbox)})

\* the corners of trans_poly, transformed back (corrected_poly)
corrected_poly(bbox, ref_crs) ==
    LET tb == trans_bounds(bbox, ref_crs)
    IN  {FromPolar(ref_crs, c) : c \in {<<tb[1], tb[2]>>, <<tb[3], tb[2]>>,
                                        <<tb[3], tb[4]>>, <<tb[1], tb[4]>>}}

\* adjust_scene_poly_at_extreme_lat(bbox, 4326, ref_crs).bounds
adjust_scene_poly_at_extreme_lat(bbox, ref_crs) ==
    LET cp == corrected_poly(bbox, ref_crs)
    IN  <<SetMin({c.lon_lo : c \in cp}), SetMin({c.lat_lo : c \in cp}),
          SetMax({c.lon_hi : c \in cp}), SetMax({c.lat_hi : c \in cp})>>

(***************************************************************************)
(* The "Adjust DEM bounds at extreme latitudes" cell.                      *)
(***************************************************************************)
\* the southern test with the threshold itself included
SouthernTest_inclusive(b) == y_min(b) <= -Deg(50) \/ y_max(b) <= -Deg(50)

\* if (scene_bounds[1] < -50) or (scene_bounds[3] < -50)
SouthernTest(b) == y_min(b) < -Deg(50) \/ y_max(b) < -Deg(50)
\* if (scene_bounds[1] > 50) or (scene_bounds[3] > 50)
NorthernTest(b) == y_min(b) > Deg(50) \/ y_max(b) > Deg(50)

\* scene_bounds after the first if
AfterSouthern(b) == IF SouthernTest(b) THEN adjust_scene_poly_at_extreme_lat(b, 3031) ELSE b
\* scene_bounds after the second if, which tests what the first one left
AfterNorthern(b) == IF NorthernTest(b) THEN adjust_scene_poly_at_extreme_lat(b, 3995) ELSE b

AdjustCell ==
    /\ pc = "adjust"
    /\ LET south == AfterSouthern(scene_bounds)
       IN  /\ scene_bounds' = AfterNorthern(south)
           /\ adjusts' = (IF SouthernTest(scene_bounds) THEN <<3031>> ELSE <<>>)
                         \o (IF NorthernTest(south) THEN <<3995>> ELSE <<>>)
    /\ pc' = "bands"
    /\ UNCHANGED <<scene_in, tileVars, storeVars, loopVars, demVars, rtcVars>>

\* the lats / longs cell: geom is the box of scene_bounds, so its extreme
\* coordinates are the bounds themselves
BandsCell ==
    /\ pc = "bands"
    /\ lats' = BandRange(y_min(scene_bounds), y_max(scene_bounds))
    /\ longs' = BandRange(x_min(scene_bounds), x_max(scene_bounds))
    /\ pc' = "paths"
    /\ UNCHANGED <<sceneVars, dem_s3_paths, storeVars, loopVars, demVars, rtcVars>>

\* the dem_s3_paths cell
PathsCell ==
    /\ pc = "paths"
    /\ dem_s3_paths' = TilePaths(lats, longs)
    /\ pc' = "fetch"
    /\ UNCHANGED <<sceneVars, lats, longs, storeVars, loopVars, demVars, rtcVars>>

(***************************************************************************)
(* gdal_merge.py -n 0 -o merged_dem_path dem_paths.  The output spans the  *)
(* union of the inputs' extents with the first input's pixel size and is   *)
(* created zero-filled; the inputs are copied onto it in the order given,  *)
(* skipping their pixels equal to the -n value, so a pixel ends with the   *)
(* value of the last input holding a value other than 0 there.             *)
(***************************************************************************)
\* the -n value: "ignore pixels from files being merged in with this pixel value"
merge_nodata == 0

\* the raster gdal_merge writes onto: the file at the output path when there is
\* one (it is opened in update mode and keeps its extent), else a new
\* zero-filled raster over the union of the inputs' extents
MergeTarget(existing, files) ==
    IF Exists(existing) THEN existing
    ELSE LET I  == 1..Len(files)
             l  == SetMin({files[i].left : i \in I})
             b  == SetMin({files[i].bottom : i \in I})
             r  == SetMax({files[i].right : i \in I})
             t  == SetMax({files[i].top : i \in I})
             rx == files[1].resx
             ry == files[1].resy
         IN  [left |-> l, bottom |-> b, right |-> r, top |-> t, resx |-> rx, resy |-> ry,
              data |-> [q \in Pixels(l, b, r, t, rx, ry) |-> 0]]

gdal_merge(existing, files) ==
    LET out == MergeTarget(existing, files)
        Src(q) == {i \in 1..Len(files) :
                     q \in DOMAIN files[i].data /\ files[i].data[q] # merge_nodata}
    IN  [out EXCEPT !.data =
            [q \in DOMAIN out.data |->
                IF Src(q) = {} THEN out.data[q] ELSE files[SetMax(Src(q))].data[q]]]

(***************************************************************************)
(* expand_raster_with_bounds.                                              *)
(***************************************************************************)
fill_value == 0

\* shapely: box(*a).contains_properly(box(*b)): b lies in
\* the interior of a, the boundaries sharing no point
contains_properly(a, b) ==
    /\ x_min(a) < x_min(b) /\ x_max(b) < x_max(a)
    /\ y_min(a) < y_min(b) /\ y_max(b) < y_max(a)

\* "adjust the new bounds with even pixel multiples of existing": int() truncates
PixelMultiple(d, rs) == (Abs(d) \div rs) * rs

new_left(old, new, rx) == x_min(old) - PixelMultiple(x_min(new) - x_min(old), rx)
new_right(old, new, rx) == x_max(old) + PixelMultiple(x_max(new) - x_max(old), rx)
new_bottom(old, new, ry) == y_min(old) - PixelMultiple(y_min(new) - y_min(old), ry)
new_top(old, new, ry) == y_max(old) + PixelMultiple(y_max(new) - y_max(old), ry)

\* rasterio.merge's copy_max on one pixel.  merged is the destination's value,
\* taken as empty when it equals the merge's nodata value (the first dataset's
\* nodata, and 0 when it has none, as for a gdal_merge output written without
\* -a_nodata); an empty destination pixel takes the new value, any other the
\* larger of the two.
nodataval == 0

\* copy_max without the destination's nodata mask: a plain maximum
copy_max_unmasked(merged, new) == Max2(merged, new)

copy_max(merged, new) == IF merged = nodataval THEN new ELSE Max2(merged, new)

\* rasterio.merge.merge(datasets=[tmp, input_raster], method='max'): the
\* destination spans the union of the two extents, which is tmp's
rasterio_merge(tmp, input) ==
    [tmp EXCEPT !.data =
        [q \in DOMAIN tmp.data |->
            LET first == copy_max(nodataval, tmp.data[q])
            IN  IF q \in DOMAIN input.data THEN copy_max(first, input.data[q]) ELSE first]]

expand_raster_with_bounds(input, old_bounds, new_bounds, fill) ==
    LET rx  == input.resx
        ry  == input.resy
        l   == new_left(old_bounds, new_bounds, rx)
        r   == new_right(old_bounds, new_bounds, rx)
        b   == new_bottom(old_bounds, new_bounds, ry)
        t   == new_top(old_bounds, new_bounds, ry)
        tmp == [left |-> l, bottom |-> b, right |-> r, top |-> t, resx |-> rx, resy |-> ry,
                data |-> [q \in Pixels(l, b, r, t, rx, ry) |-> fill]]
    IN  rasterio_merge(tmp, input)

(***************************************************************************)
(* The geoid cell.                                                         *)
(***************************************************************************)
\* the undulation the geoid model gives at a pixel
Undulation(g, q) == g.base + g.slope * q[1]

\* a conversion that leaves the pixels equal to the fill value as they are
remove_geoid_skip_fill(dem_arr, g) ==
    [q \in DOMAIN dem_arr |->
        IF dem_arr[q] = fill_value THEN dem_arr[q] ELSE dem_arr[q] + Undulation(g, q)]

\* dem_stitcher's remove_geoid(dem_arr, dem_profile, geoid_name, ...): the
\* geoid is resampled onto the DEM grid and dem_arr + geoid_offset is returned,
\* for the whole array (it is passed unmasked)
remove_geoid(dem_arr, g) == [q \in DOMAIN dem_arr |-> dem_arr[q] + Undulation(g, q)]

(***************************************************************************)
(* The notebook's cells from the merge on.                                 *)
(***************************************************************************)
\* the files named by dems_to_merge, in that order
TileFiles == [i \in 1..Len(dems_to_merge) |->
                TileRaster(dems_to_merge[i], res, tile_val[dems_to_merge[i]])]

\* "Merge the DEM": with no input file gdal_merge.py writes nothing
MergeCell ==
    /\ pc = "merge"
    /\ merged_dem' = IF dems_to_merge = <<>> THEN merged_dem
                     ELSE gdal_merge(merged_dem, TileFiles)
    /\ pc' = "cover"
    /\ UNCHANGED <<sceneVars, tileVars, storeVars, loopVars, cover_runs, geoid, ellipsoid_dem, rtcVars>>

\* the result of the coverage cell on the raster dem
EnsureCoverage(dem, target) ==
    IF ~contains_properly(array_bounds(dem), target)
    THEN expand_raster_with_bounds(dem, array_bounds(dem), target, fill_value)
    ELSE dem

\* "Ensure the DEM covers the scene ROI for ISCE3": the cell runs when it is
\* reached and may be run again on the raster it left at merged_dem_path;
\* rasterio.open raises when there is no file
CoverCell ==
    /\ pc \in {"cover", "geoid"}
    /\ cover_runs < MaxCoverRuns
    /\ Exists(merged_dem)
    /\ merged_dem' = EnsureCoverage(merged_dem, scene_bounds)
    /\ cover_runs' = cover_runs + 1
    /\ pc' = "geoid"
    /\ UNCHANGED <<sceneVars, tileVars, storeVars, loopVars, geoid, ellipsoid_dem, rtcVars>>

\* the geoid models the cell may meet
Geoids == {[base |-> -3, slope |-> 1], [base |-> 3, slope |-> 0]}

\* "Remove the GEOID" (REFERENCE_ELIPSOID == True): the array read from
\* merged_dem_path is converted and written with the profile it was read with
GeoidCell ==
    /\ pc = "geoid"
    /\ Exists(merged_dem)
    /\ \E g \in Geoids :
          /\ geoid' = g
          /\ ellipsoid_dem' = [merged_dem EXCEPT !.data = remove_geoid(merged_dem.data, g)]
    /\ pc' = "dem_path"
    /\ UNCHANGED <<sceneVars, tileVars, storeVars, loopVars, merged_dem, cover_runs, rtcVars>>

(***************************************************************************)
(* The mosaic specification: the notebook from the merge cell on, started  *)
(* in the states the download loop leaves.                                 *)
(***************************************************************************)
Elev == {-1, 0, 2}
ResChoices == {<<2, 4>>, <<4, 2>>}
NoGeoid == [base |-> 0, slope |-> 0]

DemBoxes == {bx \in (0..BoxSpan) \X (0..BoxSpan) \X (0..BoxSpan) \X (0..BoxSpan) :
                x_min(bx) < x_max(bx) /\ y_min(bx) < y_max(bx)}

\* the orders in which a set can be listed
Orders(S) == {f \in [1..Cardinality(S) -> S] : \A i, j \in 1..Cardinality(S) : f[i] = f[j] => i = j}

InitDem ==
    /\ scene_in \in DemBoxes
    /\ scene_bounds = scene_in
    /\ adjusts = <<>>
    /\ lats = BandRange(y_min(scene_bounds), y_max(scene_bounds))
    /\ longs = BandRange(x_min(scene_bounds), x_max(scene_bounds))
    /\ dem_s3_paths = TilePaths(lats, longs)
    /\ remote \in {S \in SUBSET dem_s3_paths : Cardinality(S) \in 1..MaxTiles}
    /\ dem_folder = remote
    /\ dems_to_merge \in Orders(remote)
    /\ todo = {}
    /\ not_found = dem_s3_paths \ remote
    /\ existed = {}
    /\ downloads = SetToBag(remote)
    /\ run = 1
    /\ tile_val \in [remote -> Elev]
    /\ res \in ResChoices
    /\ merged_dem = NoRaster
    /\ cover_runs = 0
    /\ geoid = NoGeoid
    /\ ellipsoid_dem = NoRaster
    /\ dem_path = "none"
    /\ rtc_dem = NoRaster
    /\ pc = "merge"

NextDem == MergeCell \/ CoverCell \/ GeoidCell

SpecDem == InitDem /\ [][NextDem]_vars

(***************************************************************************)
(* Properties of the mosaic specification.                                 *)
(***************************************************************************)
\* the extent a contains the box b, edges included
Covers(a, b) ==
    /\ x_min(a) <= x_min(b) /\ x_max(b) <= x_max(a)
    /\ y_min(a) <= y_min(b) /\ y_max(b) <= y_max(a)

\* the mosaic gdal_merge builds from the tiles, before any expansion
TileMosaic == gdal_merge(NoRaster, TileFiles)

\* C1: once the coverage cell has run, the extent of the raster at
\* merged_dem_path contains the scene bounds on all four sides.
C1_ExpandedCoversTarget ==
    cover_runs >= 1 => Covers(array_bounds(merged_dem), scene_bounds)

\* C2: a further run of the coverage cell on its own output leaves the raster
\* (bounds, size and pixel values) as the first run left it.
C2_SecondRunChangesNothing ==
    [][(cover_runs >= 1 /\ cover_runs' = cover_runs + 1) => merged_dem' = merged_dem]_vars

\* C3: after the merge, and after every run of the coverage cell, each pixel of
\* the raster at which a merged tile holds a value other than the fill value
\* holds that tile's value (negative elevations included).
C3_NonFillPixelsKept ==
    (pc \in {"cover", "geoid", "dem_path"} /\ Exists(merged_dem)) =>
        \A i \in 1..Len(dems_to_merge) :
            \A q \in DOMAIN TileFiles[i].data \cap DOMAIN merged_dem.data :
                TileFiles[i].data[q] # fill_value => merged_dem.data[q] = TileFiles[i].data[q]

\* C3 witness: the coverage cell expanded a mosaic that holds a negative
\* elevation, and the expanded raster still holds it beside padded pixels.
C3_Witness ==
    /\ cover_runs >= 1
    /\ array_bounds(merged_dem) # array_bounds(TileMosaic)
    /\ \E i \in 1..Len(dems_to_merge) :
          /\ tile_val[dems_to_merge[i]] < fill_value
          /\ \E q \in DOMAIN TileFiles[i].data : merged_dem.data[q] = tile_val[dems_to_merge[i]]
    /\ \E q \in DOMAIN merged_dem.data \ DOMAIN TileMosaic.data : merged_dem.data[q] = fill_value

\* the geoid cell left the geometry of the raster as it was
SameGeometry(a, b) ==
    /\ array_bounds(a) = array_bounds(b)
    /\ a.resx = b.resx /\ a.resy = b.resy
    /\ DOMAIN a.data = DOMAIN b.data

LocBoxes == {bx \in (-LocSpan..LocSpan) \X (-LocSpan..LocSpan)
                    \X (-LocSpan..LocSpan) \X (-LocSpan..LocSpan) :
                x_min(bx) < x_max(bx) /\ y_min(bx) < y_max(bx)}

PolarLats == {Deg(d) : d \in {-80, -60, -50, -40, 40, 50, 60, 80}}
PolarLongs == {Deg(d) : d \in {-100, -10, 0, 10, 100}}
PolarBoxes == {bx \in PolarLongs \X PolarLats \X PolarLongs \X PolarLats :
                  x_min(bx) < x_max(bx) /\ y_min(bx) < y_max(bx)}

InitLocate ==
    /\ scene_in \in LocBoxes \cup PolarBoxes
    /\ scene_bounds = scene_in
    /\ adjusts = <<>>
    /\ lats = {}
    /\ longs = {}
    /\ dem_s3_paths = {}
    /\ remote = {}
    /\ dem_folder = {}
    /\ dems_to_merge = <<>>
    /\ todo = {}
    /\ not_found = {}
    /\ existed = {}
    /\ downloads = EmptyBag
    /\ run = 0
    /\ tile_val = <<>>
    /\ res = <<2, 4>>
    /\ merged_dem = NoRaster
    /\ cover_runs = 0
    /\ geoid = NoGeoid
    /\ ellipsoid_dem = NoRaster
    /\ dem_path = "none"
    /\ rtc_dem = NoRaster
    /\ pc = "adjust"

NextLocate == AdjustCell \/ BandsCell \/ PathsCell

SpecLocate == InitLocate /\ [][NextLocate]_vars

(***************************************************************************)
(* The download cell.                                                      *)
(***************************************************************************)
Range(f) == {f[i] : i \in DOMAIN f}

\* dems_to_merge = []: the cell starts its loop over dem_s3_paths
FetchCell ==
    /\ pc = "fetch"
    /\ run < MaxRuns
    /\ run' = run + 1
    /\ dems_to_merge' = <<>>
    /\ todo' = dem_s3_paths
    /\ not_found' = {}
    /\ existed' = {}
    /\ pc' = "loop"
    /\ UNCHANGED <<sceneVars, tileVars, remote, dem_folder, downloads, tile_val, res, demVars, rtcVars>>

\* a loop body that downloads without looking for the file first
LoopBody_no_cache_check(s3_path) ==
    IF s3_path \in remote
    THEN /\ dem_folder' = dem_folder \cup {s3_path}
         /\ downloads' = downloads (+) SetToBag({s3_path})
         /\ dems_to_merge' = Append(dems_to_merge, s3_path)
         /\ UNCHANGED <<not_found, existed>>
    ELSE /\ not_found' = not_found \cup {s3_path}
         /\ UNCHANGED <<dem_folder, downloads, dems_to_merge, existed>>

\* a loop body that appends the path after the try statement, failed or not
LoopBody_append_always(s3_path) ==
    IF s3_path \notin dem_folder
    THEN IF s3_path \in remote
         THEN /\ dem_folder' = dem_folder \cup {s3_path}
              /\ downloads' = downloads (+) SetToBag({s3_path})
              /\ dems_to_merge' = Append(dems_to_merge, s3_path)
              /\ UNCHANGED <<not_found, existed>>
         ELSE /\ not_found' = not_found \cup {s3_path}
              /\ dems_to_merge' = Append(dems_to_merge, s3_path)
              /\ UNCHANGED <<dem_folder, downloads, existed>>
    ELSE /\ existed' = existed \cup {s3_path}
         /\ dems_to_merge' = Append(dems_to_merge, s3_path)
         /\ UNCHANGED <<dem_folder, downloads, not_found>>

\* the try statement for one s3_path.  dl_path is the file of that tile in
\* dem_download_folder; bucket.download_file writes it when the bucket serves
\* the path and raises otherwise, and the bare except reports 'not found'
LoopBody(s3_path) ==
    IF s3_path \notin dem_folder
    THEN IF s3_path \in remote
         THEN /\ dem_folder' = dem_folder \cup {s3_path}
              /\ downloads' = downloads (+) SetToBag({s3_path})
              /\ dems_to_merge' = Append(dems_to_merge, s3_path)
              /\ UNCHANGED <<not_found, existed>>
         ELSE /\ not_found' = not_found \cup {s3_path}
              /\ UNCHANGED <<dem_folder, downloads, dems_to_merge, existed>>
    ELSE /\ existed' = existed \cup {s3_path}
         /\ dems_to_merge' = Append(dems_to_merge, s3_path)
         /\ UNCHANGED <<dem_folder, downloads, not_found>>

\* one iteration of "for s3_path in dem_s3_paths"; list(set(...)) fixes no order
FetchTile ==
    /\ pc = "loop"
    /\ \E s3_path \in todo :
          /\ LoopBody(s3_path)
          /\ todo' = todo \ {s3_path}
    /\ UNCHANGED <<sceneVars, tileVars, remote, run, tile_val, res, demVars, rtcVars, pc>>

\* the loop is over: the dem_paths cell joins dems_to_merge for gdal_merge
DemPathsCell ==
    /\ pc = "loop"
    /\ todo = {}
    /\ pc' = "merge"
    /\ UNCHANGED <<sceneVars, tileVars, storeVars, loopVars, demVars, rtcVars>>

(***************************************************************************)
(* The download specification: runs of the notebook up to the merge, on    *)
(* one DEM folder, for scenes inside a single grid cell.                   *)
(***************************************************************************)
FetchBoxes == {<<-3, -3, -1, -1>>, <<1, -3, 3, -1>>}
FetchTiles == UNION {TilePaths(BandRange(y_min(bx), y_max(bx)),
                               BandRange(x_min(bx), x_max(bx))) : bx \in FetchBoxes}

\* the notebook is run again, for the same or another scene
NewRun ==
    /\ pc = "merge"
    /\ run < MaxRuns
    /\ scene_in' \in FetchBoxes
    /\ scene_bounds' = scene_in'
    /\ adjusts' = <<>>
    /\ lats' = {}
    /\ longs' = {}
    /\ dem_s3_paths' = {}
    /\ dems_to_merge' = <<>>
    /\ todo' = {}
    /\ not_found' = {}
    /\ existed' = {}
    /\ pc' = "adjust"
    /\ UNCHANGED <<storeVars, demVars, rtcVars>>

InitFetch ==
    /\ scene_in \in FetchBoxes
    /\ scene_bounds = scene_in
    /\ adjusts = <<>>
    /\ lats = {}
    /\ longs = {}
    /\ dem_s3_paths = {}
    /\ remote \in SUBSET FetchTiles
    /\ dem_folder = {}
    /\ dems_to_merge = <<>>
    /\ todo = {}
    /\ not_found = {}
    /\ existed = {}
    /\ downloads = EmptyBag
    /\ run = 0
    /\ tile_val = [p \in remote |-> 2]
    /\ res = <<2, 4>>
    /\ merged_dem = NoRaster
    /\ cover_runs = 0
    /\ geoid = NoGeoid
    /\ ellipsoid_dem = NoRaster
    /\ dem_path = "none"
    /\ rtc_dem = NoRaster
    /\ pc = "adjust"

NextFetch ==
    AdjustCell \/ BandsCell \/ PathsCell \/ FetchCell \/ FetchTile \/ DemPathsCell \/ NewRun

SpecFetch == InitFetch /\ [][NextFetch]_vars

(***************************************************************************)
(* Properties of the location specification.                               *)
(***************************************************************************)
\* C4: a scene box whose two latitudes both lie within -50..50 degrees,
\* the thresholds included, passes the adjustment cell unchanged: neither
\* adjustment runs.
C4_NoAdjustWithin50 ==
    (pc # "adjust" /\ Abs(y_min(scene_in)) <= Deg(50) /\ Abs(y_max(scene_in)) <= Deg(50)) =>
        (scene_bounds = scene_in /\ adjusts = <<>>)

\* C4 witness: a box reaching from exactly -50 to exactly +50 has passed the cell.
C4_Witness ==
    /\ pc = "bands"
    /\ y_min(scene_in) = -Deg(50)
    /\ y_max(scene_in) = Deg(50)
    /\ scene_bounds = scene_in

\* C5: for a southern box straddling -50 degrees the box the EPSG:3031
\* adjustment returns is at least as large as the original on every side.
C5_SouthernAdjustOnlyGrows ==
    (/\ pc # "adjust"
     /\ adjusts = <<3031>>
     /\ y_min(scene_in) < -Deg(50)
     /\ -Deg(50) < y_max(scene_in)
     /\ y_max(scene_in) <= 0) => Covers(scene_bounds, scene_in)

\* C6 as claimed: on each axis the bands run from the floor of the minimum up
\* to and including the ceiling of the maximum plus one, one path per pair.
C6_BandsToCeilPlusOne ==
    pc = "fetch" =>
        /\ lats = Floor(y_min(scene_bounds))..(Ceil(y_max(scene_bounds)) + 1)
        /\ longs = Floor(x_min(scene_bounds))..(Ceil(x_max(scene_bounds)) + 1)
        /\ Cardinality(dem_s3_paths) = Cardinality(lats) * Cardinality(longs)

\* C6 as amended: on each axis the bands run from the floor of the minimum up
\* to and including the ceiling of the maximum (range excludes its stop
\* ceil(max + 1)), and there is one path for every pair of bands.
C6_BandsToCeil ==
    pc = "fetch" =>
        /\ lats = Floor(y_min(scene_bounds))..Ceil(y_max(scene_bounds))
        /\ longs = Floor(x_min(scene_bounds))..Ceil(x_max(scene_bounds))
        /\ Cardinality(dem_s3_paths) = Cardinality(lats) * Cardinality(longs)
        /\ \A lat \in lats, long \in longs : TilePath(lat, long) \in dem_s3_paths

\* C6 witness: paths were built for a box whose northern bound is between
\* whole degrees and whose eastern bound is a whole degree, over both
\* hemispheres.
C6_Witness ==
    /\ pc = "fetch"
    /\ y_max(scene_bounds) % Deg(1) # 0
    /\ x_max(scene_bounds) % Deg(1) = 0
    /\ \E p, q \in dem_s3_paths : p.lat_dir = "N" /\ q.lat_dir = "S"
    /\ \E p, q \in dem_s3_paths : p.long_dir = "E" /\ q.long_dir = "W"

\* the box lies in the extent of a single one-degree tile
InsideOneTile(b) ==
    /\ x_max(b) <= Deg(Floor(x_min(b)) + 1)
    /\ y_max(b) <= Deg(Floor(y_min(b)) + 1)

\* C7 as claimed: a box inside a single tile's extent requests that one tile.
C7_OneTileOnly ==
    (pc = "fetch" /\ InsideOneTile(scene_bounds)) => Cardinality(dem_s3_paths) = 1

\* C7 as amended: a box (of positive area) inside a single tile's extent
\* requests four tiles: that tile and its neighbours to the north, to the east
\* and to the north-east.
C7_FourTiles ==
    (pc = "fetch" /\ InsideOneTile(scene_bounds)) =>
        /\ Cardinality(dem_s3_paths) = 4
        /\ dem_s3_paths =
              {TilePath(lat, long) :
                  lat \in {Floor(y_min(scene_bounds)), Floor(y_min(scene_bounds)) + 1},
                  long \in {Floor(x_min(scene_bounds)), Floor(x_min(scene_bounds)) + 1}}

\* C7 witness: paths were built for a box strictly inside one tile.
C7_Witness ==
    /\ pc = "fetch"
    /\ InsideOneTile(scene_bounds)
    /\ x_min(scene_bounds) % Deg(1) # 0 /\ x_max(scene_bounds) % Deg(1) # 0
    /\ y_min(scene_bounds) % Deg(1) # 0 /\ y_max(scene_bounds) % Deg(1) # 0
    /\ Cardinality(dem_s3_paths) = 4

(***************************************************************************)
(* Properties of the download specification.                               *)
(***************************************************************************)
\* the paths of dem_s3_paths the loop has been through
Reached == dem_s3_paths \ todo

\* C8: the loop goes through every path; dems_to_merge holds exactly one
\* entry for each path reached that the bucket serves or that is in the
\* folder, none for a path whose download failed, and each failed path is
\* reported; after a failure the loop goes on.
C8_LoopKeepsFoundDropsMissing ==
    pc \in {"loop", "merge"} =>
        /\ todo \subseteq dem_s3_paths
        /\ Range(dems_to_merge) = {p \in Reached : p \in remote \/ p \in dem_folder}
        /\ Len(dems_to_merge) = Cardinality(Range(dems_to_merge))
        /\ not_found = {p \in Reached : p \notin remote /\ p \notin dem_folder}
        /\ (pc = "merge" => Reached = dem_s3_paths)
        /\ (pc = "loop" /\ todo # {} => ENABLED FetchTile)

\* C8 witness: a finished loop that reported a missing tile and kept others.
C8_Witness ==
    /\ pc = "merge"
    /\ not_found # {}
    /\ dems_to_merge # <<>>
    /\ Cardinality(not_found) + Len(dems_to_merge) = Cardinality(dem_s3_paths)

\* C9: no tile is ever downloaded twice into the folder, and a tile found in
\* the folder is listed for the merge without a download.
C9_DownloadedAtMostOnce ==
    /\ \A p \in BagToSet(downloads) : CopiesIn(p, downloads) = 1
    /\ existed \subseteq Range(dems_to_merge)
    /\ (pc = "merge" => dem_s3_paths \cap dem_folder \subseteq Range(dems_to_merge))

\* C9 witness: a later run finished whose loop found a tile in the folder.
C9_Witness ==
    /\ run >= 2
    /\ pc = "merge"
    /\ \E p \in existed : CopiesIn(p, downloads) = 1 /\ p \in Range(dems_to_merge)

(***************************************************************************)
(* Properties of the cells after the coverage cell.                        *)
(***************************************************************************)
\* C11: when the coverage cell has expanded the mosaic, the notebook goes on
\* to the geoid cell and beyond only with a raster that passes the
\* containment test (contains_properly) against the scene bounds.
C11_GoesOnOnlyWhenContained ==
    (/\ pc = "dem_path"
     /\ ~contains_properly(array_bounds(TileMosaic), scene_bounds)) =>
        contains_properly(array_bounds(merged_dem), scene_bounds)

(***************************************************************************)
(* The cells that hand the DEM to the processor.                           *)
(***************************************************************************)
\* the notebook's REFERENCE_ELIPSOID
REFERENCE_ELIPSOID == TRUE

\* "set the final dem path"
DemPathCell ==
    /\ pc = "dem_path"
    /\ dem_path' = IF REFERENCE_ELIPSOID THEN "ellipsoid" ELSE "merged"
    /\ pc' = "rtc"
    /\ UNCHANGED <<sceneVars, tileVars, storeVars, loopVars, demVars, rtc_dem>>

\* the raster at the path the notebook's dem_path names
DemFile == IF dem_path = "ellipsoid" THEN ellipsoid_dem ELSE merged_dem

\* "Produce ISCE3 RTC": cfg[...]['dem_file'] = str(dem_path) is written to
\* rtc_s1.yaml and rtc_s1_single_job.py is run on it
RtcCell ==
    /\ pc = "rtc"
    /\ rtc_dem' = DemFile
    /\ pc' = "done"
    /\ UNCHANGED <<sceneVars, tileVars, storeVars, loopVars, demVars, dem_path>>

(***************************************************************************)
(* The pipeline specification: the whole notebook, run on one DEM folder   *)
(* for one scene and run again for the same scene.                         *)
(***************************************************************************)
\* a box inside one tile, a box on two edges of that tile, a zero-width box
PipeBoxes == {<<1, 1, 3, 3>>, <<0, 0, 1, 1>>, <<1, 1, 1, 3>>}

PipeTiles == UNION {TilePaths(BandRange(y_min(bx), y_max(bx)),
                              BandRange(x_min(bx), x_max(bx))) : bx \in PipeBoxes}

\* the notebook is run from the top again for the same scene (the same name,
\* so the same merged_dem_path); the files of the folder stay
Rerun ==
    /\ pc = "done"
    /\ run < MaxRuns
    /\ scene_bounds' = scene_in
    /\ adjusts' = <<>>
    /\ lats' = {}
    /\ longs' = {}
    /\ dem_s3_paths' = {}
    /\ dems_to_merge' = <<>>
    /\ todo' = {}
    /\ not_found' = {}
    /\ existed' = {}
    /\ cover_runs' = 0
    /\ geoid' = NoGeoid
    /\ dem_path' = "none"
    /\ rtc_dem' = NoRaster
    /\ pc' = "adjust"
    /\ UNCHANGED <<scene_in, storeVars, merged_dem, ellipsoid_dem>>

Init ==
    /\ scene_in \in PipeBoxes
    /\ scene_bounds = scene_in
    /\ adjusts = <<>>
    /\ lats = {}
    /\ longs = {}
    /\ dem_s3_paths = {}
    /\ remote \in SUBSET PipeTiles
    /\ dem_folder = {}
    /\ dems_to_merge = <<>>
    /\ todo = {}
    /\ not_found = {}
    /\ existed = {}
    /\ downloads = EmptyBag
    /\ run = 0
    /\ tile_val = [p \in remote |-> 2]
    /\ res = <<2, 4>>
    /\ merged_dem = NoRaster
    /\ cover_runs = 0
    /\ geoid = NoGeoid
    /\ ellipsoid_dem = NoRaster
    /\ dem_path = "none"
    /\ rtc_dem = NoRaster
    /\ pc = "adjust"

Next ==
    \/ AdjustCell \/ BandsCell \/ PathsCell
    \/ FetchCell \/ FetchTile \/ DemPathsCell
    \/ MergeCell \/ CoverCell \/ GeoidCell
    \/ DemPathCell \/ RtcCell \/ Rerun

Spec == Init /\ [][Next]_vars

(***************************************************************************)
(* Properties of the pipeline specification.                               *)
(***************************************************************************)
\* the scene box has no width or no height
Degenerate(b) == x_min(b) = x_max(b) \/ y_min(b) = y_max(b)

\* C12: for a scene whose bounding box is degenerate the notebook stops before
\* the merge: there is never a raster at merged_dem_path.
C12_NoMosaicForDegenerateBox ==
    Degenerate(scene_in) => ~Exists(merged_dem)

\* the coverage cell run n times on dem
RECURSIVE CoverTimes(_, _, _)
CoverTimes(dem, target, n) ==
    IF n = 0 THEN dem ELSE CoverTimes(EnsureCoverage(dem, target), target, n - 1)

\* what this run's stages alone give: the mosaic of this run's tiles, put
\* through the coverage cell as often as it ran
FreshDem == CoverTimes(TileMosaic, scene_bounds, cover_runs)

\* C13: when the processor has run, tiles were merged in this run and the DEM
\* it read is the converted file, made in this run from this run's mosaic and
\* expansion and from nothing an earlier run left behind.
C13_ProcessorGetsThisRunsDem ==
    pc = "done" =>
        /\ dems_to_merge # <<>>
        /\ dem_path = "ellipsoid"
        /\ rtc_dem = [FreshDem EXCEPT !.data = remove_geoid(FreshDem.data, geoid)]

(***************************************************************************)
(* Further properties of the location specification.                       *)
(***************************************************************************)
\* C14: the adjustment cell applies at most one of the two adjustments: never
\* the northern (3995) one after, and so on the output of, the southern
\* (3031) one.
C14_AtMostOneAdjustment ==
    Len(adjusts) <= 1

(***************************************************************************)
(* Further properties of the mosaic specification.                         *)
(***************************************************************************)
\* side new lies k >= 0 whole pixels of size rs outward (dir = -1: toward
\* smaller coordinates, dir = 1: toward larger) of side old, and is old when
\* old already reaches the target side
SideMovesOutward(old, new, target, rs, dir) ==
    /\ dir * (new - old) >= 0
    /\ (dir * (new - old)) % rs = 0
    /\ (dir * (old - target) >= 0 => new = old)

\* C15: the bounds expand_raster_with_bounds gives a mosaic for the scene
\* bounds differ from the mosaic's, on each side, by zero or more whole
\* pixels outward, and not at all on a side where the mosaic's edge already
\* reaches or exceeds the scene bounds.
C15_SidesMoveOutwardWhenShort ==
    (pc = "cover" /\ Exists(merged_dem)) =>
        LET old == array_bounds(merged_dem)
            out == expand_raster_with_bounds(merged_dem, old, scene_bounds, fill_value)
            new == array_bounds(out)
        IN  /\ SideMovesOutward(x_min(old), x_min(new), x_min(scene_bounds), merged_dem.resx, -1)
            /\ SideMovesOutward(x_max(old), x_max(new), x_max(scene_bounds), merged_dem.resx, 1)
            /\ SideMovesOutward(y_min(old), y_min(new), y_min(scene_bounds), merged_dem.resy, -1)
            /\ SideMovesOutward(y_max(old), y_max(new), y_max(scene_bounds), merged_dem.resy, 1)
            /\ out.resx = merged_dem.resx /\ out.resy = merged_dem.resy

(***************************************************************************)
(* Coverage of the scene bounds by the requested tiles.                    *)
(***************************************************************************)
\* coordinate u lies in the one-degree cell [band, band + 1] of some band
InSomeBand(u, bands) == \E b \in bands : Deg(b) <= u /\ u <= Deg(b + 1)

\* C16: for a box of positive area the requested tiles cover the box: each of
\* its longitudes and each of its latitudes lies in the cell of a band, a tile
\* is requested for every pair of bands, the request is not empty, and
\* different pairs of bands have different tile paths, so that list(set(...))
\* drops none.
C16_TilesCoverBox ==
    (pc = "fetch" /\ ~Degenerate(scene_bounds)) =>
        /\ dem_s3_paths # {}
        /\ \A u \in x_min(scene_bounds)..x_max(scene_bounds) : InSomeBand(u, longs)
        /\ \A v \in y_min(scene_bounds)..y_max(scene_bounds) : InSomeBand(v, lats)
        /\ \A lat \in lats, long \in longs :
              /\ TilePath(lat, long) \in dem_s3_paths
              /\ TileLat(TilePath(lat, long)) = lat
              /\ TileLong(TilePath(lat, long)) = long
        /\ Cardinality(dem_s3_paths) = Cardinality(lats \X longs)

\* C16 witness: paths were built for a box between whole degrees on its
\* south-west corner that spans the equator and the prime meridian.
C16_Witness ==
    /\ pc = "fetch"
    /\ x_min(scene_bounds) % Deg(1) # 0
    /\ y_min(scene_bounds) % Deg(1) # 0
    /\ x_min(scene_bounds) < 0 /\ 0 < x_max(scene_bounds)
    /\ y_min(scene_bounds) < 0 /\ 0 < y_max(scene_bounds)
    /\ Cardinality(dem_s3_paths) >= 9
====
